---- MODULE Spec2Model ----
(***************************************************************************)
(* A model of js/repl/Repl.js, the root component of the REPL page: its    *)
(* state, the debounced compile, the lazy loading of the optional modules  *)
(* (plugins, runtime polyfill, env preset), the persistence of the         *)
(* preferences and the evaluation of the compiled code.                    *)
(*                                                                         *)
(* One action is one run of a handler or callback (React applies the       *)
(* state updates of a handler before its setState callback; JavaScript     *)
(* runs a handler to completion before the next event).                    *)
(***************************************************************************)
EXTENDS Integers, Sequences, FiniteSets, TLC

VARIABLES
    state,                \* this.state
    _numLoadingPlugins,   \* this._numLoadingPlugins
    debounce,             \* the timer and last argument of the debounced _compileToState
    loads,                \* per optional module: load callbacks not yet run
    registered,           \* what window.Babel.registerPreset("env", ...) was given, or NULL
    storage,              \* local storage (StorageService)
    urlQuery,             \* the URL query (UriUtils)
    calls,                \* the calls of the debounced function since it last ran (history)
    nEvents,              \* number of user events so far
    last                  \* what the last step did (history)

vars == <<state, _numLoadingPlugins, debounce, loads, registered, storage,
          urlQuery, calls, nEvents, last>>

-----------------------------------------------------------------------------
(* Bounds and constants *)

DEBOUNCE_DELAY == 500

\* ms by which one Tick advances the time
TickStep == 250

\* user events per run
MaxEvents == 3

\* calls of the debounced function that are counted
MaxBurst == 2

NULL == [null |-> TRUE]

Min(a, b) == IF a < b THEN a ELSE b

Max(a, b) == IF a < b THEN b ELSE a

-----------------------------------------------------------------------------
(* Strings that are split and joined are sequences of tokens; "," is the   *)
(* separator token.                                                        *)

COMMA == ","

RECURSIVE join(_)
\* Array.prototype.join(",")
join(arr) ==
    IF arr = <<>> THEN <<>>
    ELSE IF Len(arr) = 1 THEN arr[1]
    ELSE arr[1] \o <<COMMA>> \o join(Tail(arr))

RECURSIVE splitFrom(_, _)
\* the pieces of str after the piece cur that is being read
splitFrom(str, cur) ==
    IF str = <<>> THEN <<cur>>
    ELSE IF Head(str) = COMMA THEN <<cur>> \o splitFrom(Tail(str), <<>>)
    ELSE splitFrom(Tail(str), Append(cur, Head(str)))

\* String.prototype.split(","): "" gives [""]
split(str) == splitFrom(str, <<>>)

Range(s) == {s[i] : i \in DOMAIN s}

RECURSIVE filterSeq(_, _)
filterSeq(s, keep) ==
    IF s = <<>> THEN <<>>
    ELSE IF Head(s) \in keep THEN <<Head(s)>> \o filterSeq(Tail(s), keep)
    ELSE filterSeq(Tail(s), keep)

-----------------------------------------------------------------------------
(* PluginConfig: the optional modules *)

\* pluginConfigs, in order
pluginKeys == <<"babili-standalone", "prettier">>

PluginKeys == Range(pluginKeys)

\* presetPluginConfigs: config.package, in order
presetKeys == <<"babel-preset-es2015", "babel-preset-react", "babel-preset-stage-2">>

PresetKeys == Range(presetKeys)

\* config.label of the preset whose package is key
presetLabel(key) ==
    CASE key = "babel-preset-es2015" -> "es2015"
      [] key = "babel-preset-react" -> "react"
      [] key = "babel-preset-stage-2" -> "stage-2"

\* config.package of a preset, as the tokens of `babel-preset-${label}`
presetPackage(key) == <<"babel-preset-", presetLabel(key)>>

POLYFILL == "babel-polyfill"

ENV == "env"

Modules == PluginKeys \cup {POLYFILL, ENV}

\* configToState(config, isEnabled)
configToState(isPreLoaded, isEnabled) ==
    [isEnabled |-> isEnabled, isLoaded |-> isPreLoaded, isLoading |-> FALSE,
     didError |-> FALSE, plugin |-> NULL]

\* what window[config.instanceName] holds once the script of module m has run
moduleOf(m) == [default |-> [exportsOf |-> m]]

-----------------------------------------------------------------------------
(* The persisted state and the constructor *)

\* loadPersistedState() on a first visit
defaultPersistedState ==
    [babili |-> FALSE, browsers |-> "", build |-> "", builtIns |-> FALSE,
     circleciRepo |-> "", code |-> "", debug |-> FALSE, evaluate |-> FALSE,
     lineWrap |-> FALSE, presets |-> <<>>, prettier |-> FALSE,
     showSidebar |-> TRUE, targets |-> <<>>, version |-> ""]

\* persistedState.presets || "es2015,react,stage-2"
presetsOrDefault(presets) ==
    IF presets = <<>> THEN join(<< <<"es2015">>, <<"react">>, <<"stage-2">> >>)
    ELSE presets

\* the keys of defaultPresets: `babel-preset-${key}` for every piece
defaultPresets(persistedState) ==
    {<<"babel-preset-">> \o key : key \in Range(split(presetsOrDefault(persistedState.presets)))}

\* persistedStateToEnvConfig
persistedStateToEnvConfig(persistedState) ==
    [browsers |-> persistedState.browsers,
     isEnvPresetEnabled |-> <<ENV>> \in Range(split(persistedState.presets)),
     isNodeEnabled |-> \E t \in Range(split(persistedState.targets)) : t = <<"Node">>]

\* persistedStateToBabelState
persistedStateToBabelState(persistedState) ==
    [build |-> persistedState.build, circleciRepo |-> persistedState.circleciRepo,
     version |-> persistedState.version, didError |-> FALSE, isLoaded |-> FALSE,
     isLoading |-> TRUE]

\* the state the constructor builds
constructor(persistedState) ==
    LET envConfig == persistedStateToEnvConfig(persistedState) IN
    [babel |-> persistedStateToBabelState(persistedState),
     builtIns |-> persistedState.builtIns,
     code |-> persistedState.code,
     compiled |-> NULL,
     compileError |-> NULL,
     debugEnvPreset |-> persistedState.debug,
     envConfig |-> envConfig,
     envPresetDebugInfo |-> NULL,
     envPresetState |-> configToState(FALSE, envConfig.isEnvPresetEnabled),
     evalError |-> NULL,
     isSidebarExpanded |-> persistedState.showSidebar,
     lineWrap |-> persistedState.lineWrap,
     plugins |-> [k \in PluginKeys |->
                    configToState(FALSE,
                        IF k = "babili-standalone" THEN persistedState.babili
                        ELSE persistedState.prettier)],
     presets |-> [k \in PresetKeys |->
                    configToState(TRUE, presetPackage(k) \in defaultPresets(persistedState))],
     runtimePolyfillState |-> configToState(FALSE, persistedState.evaluate),
     sourceMap |-> NULL]

-----------------------------------------------------------------------------
(* compile.js and _compile *)

\* code the compiler rejects
BadCodes == {"syntax error"}

\* compiled code that throws when it is run
Throws(compiled) == compiled.src = "throw 1"

\* the text of the compiled code is empty
IsEmpty(compiled) == compiled.src = ""

\* scopedEval(compiled, sourceMap): the error thrown, or NULL
scopedEval(compiled, sourceMap) ==
    IF Throws(compiled) THEN [error |-> "thrown by the evaluated code"] ELSE NULL

\* what the compiler gets of one entry of the preset list (onPresetBuild does
\* not change the output)
presetInput(entry) ==
    IF entry.name = ENV THEN [name |-> ENV, targets |-> entry.targets,
                              useBuiltIns |-> entry.useBuiltIns]
    ELSE entry

\* compile(code, config); window.prettier is defined once prettier has loaded
compile(code, config, window) ==
    IF code \in BadCodes
    THEN [compiled |-> NULL, compileError |-> [error |-> "SyntaxError"],
          evalError |-> NULL, sourceMap |-> NULL]
    ELSE LET compiled == [src |-> code,
                          presets |-> [i \in DOMAIN config.presets |->
                                          presetInput(config.presets[i])],
                          pretty |-> config.prettify /\ window.prettier]
             sourceMap == IF config.sourceMap THEN [mapOf |-> compiled] ELSE NULL
         IN [compiled |-> compiled, compileError |-> NULL,
             evalError |-> IF config.evaluate THEN scopedEval(compiled, sourceMap)
                           ELSE NULL,
             sourceMap |-> sourceMap]

\* compile(code, config) runs the compiled code
compileEvaluates(code, config) == code \notin BadCodes /\ config.evaluate

\* _presetsToArray(state)
_presetsToArray(st) ==
    LET enabled == {k \in PresetKeys : st.presets[k].isEnabled /\ st.presets[k].isLoaded}
        keys == filterSeq(presetKeys, enabled)
    IN [i \in DOMAIN keys |-> [name |-> presetLabel(keys[i])]]

\* state.evaluate: State has no such field unless a setting change made one
stateEvaluate(st) == IF "evaluate" \in DOMAIN st THEN st.evaluate ELSE FALSE

\* envIncluded, without the test of isLoaded
envIncludedWhenEnabled(st) == st.envConfig.isEnvPresetEnabled

\* the env preset is part of the compile
envIncluded(st) == st.envConfig.isEnvPresetEnabled /\ st.envPresetState.isLoaded

\* wantsDebugInfo, whatever debugEnvPreset is
wantsDebugInfoAlways(st) == TRUE

\* onPresetBuild is given to the env preset
wantsDebugInfo(st) == st.debugEnvPreset

\* the entry ["env", options] of the preset list
envEntry(st) ==
    [name |-> ENV,
     targets |-> [browsers |-> IF st.envConfig.browsers # "" THEN <<st.envConfig.browsers>>
                               ELSE <<>>,
                  node |-> st.envConfig.isNodeEnabled],
     onPresetBuild |-> wantsDebugInfo(st),
     useBuiltIns |-> ~stateEvaluate(st) /\ st.builtIns]

\* the preset list _compile builds
compilePresets(st) ==
    _presetsToArray(st)
      \o (IF st.plugins["babili-standalone"].isEnabled /\ st.plugins["babili-standalone"].isLoaded
          THEN << [name |-> "babili"] >> ELSE <<>>)
      \o (IF envIncluded(st) THEN << envEntry(st) >> ELSE <<>>)

\* the config _compile hands to compile
compileConfig(st) ==
    [evaluate |-> st.runtimePolyfillState.isEnabled /\ st.runtimePolyfillState.isLoaded,
     presets |-> compilePresets(st),
     prettify |-> st.plugins["prettier"].isEnabled,
     sourceMap |-> st.runtimePolyfillState.isEnabled]

\* getDebugInfoFromEnvResult(result), as onPresetBuild receives it during the compile
debugInfoOf(st) ==
    IF envIncluded(st) /\ wantsDebugInfo(st) THEN [debugInfoFor |-> envEntry(st).targets]
    ELSE NULL

\* the global object, as far as compile reads it
windowOf(st) == [prettier |-> st.plugins["prettier"].isLoaded]

\* _compile(code, state): the partial state it returns
_compile(code, st) ==
    LET r == compile(code, compileConfig(st), windowOf(st)) IN
    [compiled |-> r.compiled, compileError |-> r.compileError,
     evalError |-> r.evalError, sourceMap |-> r.sourceMap,
     envPresetDebugInfo |-> debugInfoOf(st)]

\* setState(partial): the fields of partial replace those of st
merge(st, partial) ==
    [k \in DOMAIN st \cup DOMAIN partial |->
        IF k \in DOMAIN partial THEN partial[k] ELSE st[k]]

-----------------------------------------------------------------------------
(* loadPlugin and _checkForUnloadedPlugins *)

\* loadPlugin(state, callback), up to the start of the script load: a module
\* that is loading is left alone
loadPlugin(ps) == IF ps.isLoading THEN ps ELSE [ps EXCEPT !.isLoading = TRUE]

\* loadPlugin(state, callback) starts a script load, whose end runs callback
startsLoad(ps) == ~ps.isLoading

\* the script load of module m ended: the plugin state before callback runs
loadDone(ps, m, success) ==
    IF success
    THEN [ps EXCEPT !.isLoaded = TRUE, !.isLoading = FALSE, !.plugin = moduleOf(m)]
    ELSE [ps EXCEPT !.didError = TRUE, !.isLoading = FALSE]

\* needsPluginLoad, without the test of isLoading
needsPluginLoadWhileLoading(plugin) == plugin.isEnabled /\ ~plugin.isLoaded

\* needsPluginLoad, without the test of isEnabled
needsPluginLoadAlways(plugin) == ~plugin.isLoaded /\ ~plugin.isLoading

\* the test before loadPlugin(plugin, ...)
needsPluginLoad(plugin) == plugin.isEnabled /\ ~plugin.isLoaded /\ ~plugin.isLoading

\* the test before loadPlugin(runtimePolyfillState, ...)
needsPolyfillLoad(st) ==
    st.runtimePolyfillState.isEnabled /\ ~st.runtimePolyfillState.isLoaded

\* the test before loadPlugin(envPresetState, ...)
needsEnvLoad(st) == st.envConfig.isEnvPresetEnabled /\ ~st.envPresetState.isLoaded

\* the PluginState of module m
pluginStateOf(st, m) ==
    IF m = POLYFILL THEN st.runtimePolyfillState
    ELSE IF m = ENV THEN st.envPresetState
    ELSE st.plugins[m]

\* the modules _checkForUnloadedPlugins calls loadPlugin for
requestedBy(st) ==
    {k \in PluginKeys : needsPluginLoad(st.plugins[k])}
      \cup (IF needsPolyfillLoad(st) THEN {POLYFILL} ELSE {})
      \cup (IF needsEnvLoad(st) THEN {ENV} ELSE {})

\* this.state after _checkForUnloadedPlugins
checkedState(st) ==
    LET req == requestedBy(st) IN
    [st EXCEPT !.plugins = [k \in PluginKeys |->
                              IF k \in req THEN loadPlugin(@[k]) ELSE @[k]],
               !.runtimePolyfillState = IF POLYFILL \in req THEN loadPlugin(@) ELSE @,
               !.envPresetState = IF ENV \in req THEN loadPlugin(@) ELSE @]

\* this._numLoadingPlugins after _checkForUnloadedPlugins
numAfterCheck(n, st) == n + Cardinality(requestedBy(st) \cap PluginKeys)

\* the load callbacks outstanding after _checkForUnloadedPlugins
loadsAfterCheck(ld, st) ==
    [m \in Modules |->
        IF m \in requestedBy(st) /\ startsLoad(pluginStateOf(st, m)) THEN ld[m] + 1
        ELSE ld[m]]

-----------------------------------------------------------------------------
(* The debounced _compileToState *)

idle == [pending |-> FALSE, args |-> NULL, left |-> 0]

\* debounceCall, but a call while the timer runs does not restart it
debounceCallNoRestart(d, code) ==
    [pending |-> TRUE, args |-> code,
     left |-> IF d.pending THEN d.left ELSE DEBOUNCE_DELAY]

\* a call of the debounced function: the timer restarts, the argument is kept
debounceCall(d, code) == [pending |-> TRUE, args |-> code, left |-> DEBOUNCE_DELAY]

\* no call since the debounced function last ran, which was `since` ms ago or more
noCalls(since) == [since |-> since, n |-> 0, first |-> NULL, arg |-> NULL]

\* the history of the calls after a call with code
noteCall(c, code) ==
    [since |-> 0, n |-> Min(c.n + 1, MaxBurst),
     first |-> IF c.n = 0 THEN [code |-> code] ELSE c.first, arg |-> [code |-> code]]

-----------------------------------------------------------------------------
(* _persistState *)

\* the snapshot _persistState builds
persistSnapshot(st) ==
    LET presetsArray ==
            [i \in DOMAIN _presetsToArray(st) |-> <<_presetsToArray(st)[i].name>>]
              \o (IF st.plugins["babili-standalone"].isEnabled THEN << <<"babili">> >>
                  ELSE <<>>)
              \o (IF st.envConfig.isEnvPresetEnabled THEN << <<ENV>> >> ELSE <<>>)
    IN [babili |-> st.plugins["babili-standalone"].isEnabled,
        browsers |-> st.envConfig.browsers,
        build |-> st.babel.build,
        builtIns |-> st.builtIns,
        circleciRepo |-> st.babel.circleciRepo,
        code |-> st.code,
        debug |-> st.debugEnvPreset,
        evaluate |-> st.runtimePolyfillState.isEnabled,
        lineWrap |-> st.lineWrap,
        presets |-> join(presetsArray),
        prettier |-> st.plugins["prettier"].isEnabled,
        showSidebar |-> st.isSidebarExpanded,
        targets |-> IF st.envConfig.isNodeEnabled THEN join(<< <<"Node">> >>) ELSE <<>>,
        version |-> st.babel.version]

\* StorageService.set("replState", state)
storageSet(stg, snapshot) == [stg EXCEPT !.replState = snapshot]

\* UriUtils.updateQuery(state)
updateQuery(snapshot) == snapshot

-----------------------------------------------------------------------------
(* The history variable *)

quiet ==
    [op |-> "none", compile |-> NULL, evaluated |-> FALSE, requested |-> {},
     registers |-> FALSE, updatesCode |-> FALSE, persists |-> FALSE,
     burst |-> NULL, setting |-> NULL]

\* the compiler was run on code, in state st
ranCompile(code, st) == [code |-> code, config |-> compileConfig(st)]

-----------------------------------------------------------------------------
(* The initial state *)

InitFrom(persistedState) ==
    /\ state = constructor(persistedState)
    /\ _numLoadingPlugins = 0
    /\ debounce = idle
    /\ loads = [m \in Modules |-> 0]
    /\ registered = NULL
    /\ storage = [replState |-> NULL]
    /\ urlQuery = NULL
    /\ calls = noCalls(DEBOUNCE_DELAY)
    /\ nEvents = 0
    /\ last = quiet

Init == InitFrom(defaultPersistedState)

-----------------------------------------------------------------------------
(* The handlers *)

\* the body of _updateCode(code), applied to state st
updatedCode(st, code) == [st EXCEPT !.code = code]

\* _setupBabel: the callback of loadBabel, which has set the flags of state.babel
BabelLoaded(success) ==
    /\ state.babel.isLoading
    /\ LET babelState == IF success
                         THEN [state.babel EXCEPT !.isLoaded = TRUE, !.isLoading = FALSE]
                         ELSE [state.babel EXCEPT !.didError = TRUE, !.isLoading = FALSE]
           st0 == [state EXCEPT !.babel = babelState]
           st1 == merge(merge(st0, babelState),
                        IF babelState.isLoaded THEN _compile(st0.code, st0) ELSE <<>>)
       IN IF babelState.isLoaded
          THEN /\ state' = checkedState(st1)
               /\ _numLoadingPlugins' = numAfterCheck(_numLoadingPlugins, st1)
               /\ loads' = loadsAfterCheck(loads, st1)
               /\ last' = [quiet EXCEPT !.op = "BabelLoaded",
                                        !.compile = ranCompile(st0.code, st0),
                                        !.evaluated = compileEvaluates(st0.code, compileConfig(st0)),
                                        !.requested = requestedBy(st1)]
          ELSE /\ state' = st1
               /\ last' = [quiet EXCEPT !.op = "BabelLoaded"]
               /\ UNCHANGED <<_numLoadingPlugins, loads>>
    /\ UNCHANGED <<debounce, registered, storage, urlQuery, calls, nEvents>>

\* _presetsUpdatedSetStateCallback, run on the updated state st1
presetsUpdated(st1, op, name, value) ==
    /\ state' = updatedCode(checkedState(st1), st1.code)
    /\ _numLoadingPlugins' = numAfterCheck(_numLoadingPlugins, st1)
    /\ loads' = loadsAfterCheck(loads, st1)
    /\ debounce' = debounceCall(debounce, st1.code)
    /\ calls' = noteCall(calls, st1.code)
    /\ last' = [quiet EXCEPT !.op = op, !.requested = requestedBy(st1),
                             !.updatesCode = TRUE,
                             !.setting = [name |-> name, value |-> value]]
    /\ UNCHANGED <<registered, storage, urlQuery>>

\* rendersPanels, whatever state.babel is
rendersPanelsAlways(st) == TRUE

\* render(): the options panel and the editor panels are rendered, not the
\* loading or error message
rendersPanels(st) == st.babel.isLoaded

\* the user is shown the panels and may act
userMayAct == rendersPanels(state) /\ nEvents < MaxEvents

\* the editor's onChange: _updateCode(code)
_updateCode(code) ==
    /\ userMayAct
    /\ nEvents' = nEvents + 1
    /\ state' = updatedCode(state, code)
    /\ debounce' = debounceCall(debounce, code)
    /\ calls' = noteCall(calls, code)
    /\ last' = [quiet EXCEPT !.op = "_updateCode", !.updatesCode = TRUE]
    /\ UNCHANGED <<_numLoadingPlugins, loads, registered, storage, urlQuery>>

\* settingChanged, without the test of "babel-polyfill"
settingChangedNoPolyfill(st, name, isEnabled) ==
    IF name \in DOMAIN st THEN [st EXCEPT ![name] = isEnabled]
    ELSE IF name \in DOMAIN st.plugins THEN [st EXCEPT !.plugins[name].isEnabled = isEnabled]
    ELSE IF name \in DOMAIN st.presets THEN [st EXCEPT !.presets[name].isEnabled = isEnabled]
    ELSE st

\* the updater of _onSettingChange
settingChanged(st, name, isEnabled) ==
    IF name = "babel-polyfill"
    THEN [st EXCEPT !.runtimePolyfillState.isEnabled = isEnabled]
    ELSE IF name \in DOMAIN st THEN [st EXCEPT ![name] = isEnabled]
    ELSE IF name \in DOMAIN st.plugins THEN [st EXCEPT !.plugins[name].isEnabled = isEnabled]
    ELSE IF name \in DOMAIN st.presets THEN [st EXCEPT !.presets[name].isEnabled = isEnabled]
    ELSE st

_onSettingChange(name, isEnabled) ==
    /\ userMayAct
    /\ nEvents' = nEvents + 1
    /\ presetsUpdated(settingChanged(state, name, isEnabled), "_onSettingChange",
                      name, isEnabled)

\* the updater of _onEnvPresetSettingChange
envSettingChanged(st, name, value) == [st EXCEPT !.envConfig[name] = value]

_onEnvPresetSettingChange(name, value) ==
    /\ userMayAct
    /\ nEvents' = nEvents + 1
    /\ presetsUpdated(envSettingChanged(state, name, value), "_onEnvPresetSettingChange",
                      name, value)

\* persisted, but the URL is left as it was
persistedStorageOnly(st) ==
    /\ storage' = storageSet(storage, persistSnapshot(st))
    /\ UNCHANGED urlQuery

\* _persistState, run on state st
persisted(st) ==
    /\ storage' = storageSet(storage, persistSnapshot(st))
    /\ urlQuery' = updateQuery(persistSnapshot(st))

_onIsSidebarExpandedChange(isExpanded) ==
    /\ userMayAct
    /\ nEvents' = nEvents + 1
    /\ state' = [state EXCEPT !.isSidebarExpanded = isExpanded]
    /\ persisted(state')
    /\ last' = [quiet EXCEPT !.op = "_onIsSidebarExpandedChange", !.persists = TRUE]
    /\ UNCHANGED <<_numLoadingPlugins, debounce, loads, registered, calls>>

\* time passes while the timer of the debounced function runs
Tick ==
    /\ debounce.pending
    /\ debounce.left > 0
    /\ debounce' = [debounce EXCEPT !.left = Max(0, @ - TickStep)]
    /\ calls' = [calls EXCEPT !.since = Min(DEBOUNCE_DELAY, @ + TickStep)]
    /\ last' = [quiet EXCEPT !.op = "Tick"]
    /\ UNCHANGED <<state, _numLoadingPlugins, loads, registered, storage, urlQuery, nEvents>>

\* the timer of the debounced function fires: the function given to debounce
_compileToState ==
    /\ debounce.pending
    /\ debounce.left = 0
    /\ state' = merge(state, _compile(debounce.args, state))
    /\ persisted(state')
    /\ debounce' = idle
    /\ calls' = noCalls(calls.since)
    /\ last' = [quiet EXCEPT !.op = "_compileToState", !.burst = calls,
                             !.compile = ranCompile(debounce.args, state),
                             !.evaluated = compileEvaluates(debounce.args, compileConfig(state)),
                             !.persists = TRUE]
    /\ UNCHANGED <<_numLoadingPlugins, loads, registered, nEvents>>

\* recompilesAfterPlugin, but only a callback that finds no load at all recompiles
recompilesAfterPluginNever(n) == n < 0

\* the plugin callback recompiles
recompilesAfterPlugin(n) == n = 0

\* the counter after a plugin callback
numAfterCallback(n) == n - 1

\* the load of plugin key ended: the callback given to loadPlugin(plugin, ...)
PluginLoaded(key, success) ==
    /\ loads[key] > 0
    /\ loads' = [loads EXCEPT ![key] = @ - 1]
    /\ _numLoadingPlugins' = numAfterCallback(_numLoadingPlugins)
    /\ state' = [state EXCEPT !.plugins[key] = loadDone(@, key, success)]
    /\ IF recompilesAfterPlugin(_numLoadingPlugins')
       THEN /\ debounce' = debounceCall(debounce, state.code)
            /\ calls' = noteCall(calls, state.code)
            /\ last' = [quiet EXCEPT !.op = "PluginLoaded", !.updatesCode = TRUE]
       ELSE /\ last' = [quiet EXCEPT !.op = "PluginLoaded"]
            /\ UNCHANGED <<debounce, calls>>
    /\ UNCHANGED <<registered, storage, urlQuery, nEvents>>

\* evaluatesAfterPolyfill, but empty code is run too
evaluatesAfterPolyfillEmpty(st) == st.compiled # NULL

\* the polyfill callback runs the compiled code
evaluatesAfterPolyfill(st) == st.compiled # NULL /\ ~IsEmpty(st.compiled)

\* the load of the runtime polyfill ended: the callback given to
\* loadPlugin(runtimePolyfillState, ...)
PolyfillLoaded(success) ==
    /\ loads[POLYFILL] > 0
    /\ loads' = [loads EXCEPT ![POLYFILL] = @ - 1]
    /\ LET st1 == [state EXCEPT !.runtimePolyfillState = loadDone(@, POLYFILL, success)]
       IN IF evaluatesAfterPolyfill(st1)
          THEN /\ state' = [st1 EXCEPT !.evalError = scopedEval(st1.compiled, st1.sourceMap)]
               /\ last' = [quiet EXCEPT !.op = "PolyfillLoaded", !.evaluated = TRUE]
          ELSE /\ state' = st1
               /\ last' = [quiet EXCEPT !.op = "PolyfillLoaded"]
    /\ UNCHANGED <<_numLoadingPlugins, debounce, registered, storage, urlQuery,
                   calls, nEvents>>

\* envPresetState.plugin.default can be read (it throws a TypeError otherwise)
envModuleReadable(st) == st.envPresetState.plugin # NULL

\* the load of the env preset ended: the callback given to
\* loadPlugin(envPresetState, ...)
EnvPresetLoaded(success) ==
    /\ loads[ENV] > 0
    /\ loads' = [loads EXCEPT ![ENV] = @ - 1]
    /\ state' = [state EXCEPT !.envPresetState = loadDone(@, ENV, success)]
    /\ IF envModuleReadable(state')
       THEN /\ registered' = state'.envPresetState.plugin.default
            /\ debounce' = debounceCall(debounce, state.code)
            /\ calls' = noteCall(calls, state.code)
            /\ last' = [quiet EXCEPT !.op = "EnvPresetLoaded", !.registers = TRUE,
                                     !.updatesCode = TRUE]
       ELSE /\ last' = [quiet EXCEPT !.op = "EnvPresetLoaded"]
            /\ UNCHANGED <<registered, debounce, calls>>
    /\ UNCHANGED <<_numLoadingPlugins, storage, urlQuery, nEvents>>

\* render(): what the panel of the compiled code is given
render(st) ==
    [code |-> st.compiled, error |-> st.evalError,
     info |-> IF st.debugEnvPreset THEN st.envPresetDebugInfo ELSE NULL]

-----------------------------------------------------------------------------
(* The specification *)

\* what the user types
Codes == {"x", "throw 1", "syntax error"}

\* the names the options panel passes to onSettingChange, with the checkbox
\* clicked
SettingNames ==
    {"babel-polyfill", "builtIns", "debugEnvPreset", "babili-standalone", "prettier",
     "babel-preset-es2015"}

\* the flag the options panel shows in the checkbox called name
shownSetting(st, name) ==
    IF name = "babel-polyfill" THEN st.runtimePolyfillState.isEnabled
    ELSE IF name \in DOMAIN st THEN st[name]
    ELSE IF name \in DOMAIN st.plugins THEN st.plugins[name].isEnabled
    ELSE st.presets[name].isEnabled

\* the settings the options panel passes to onEnvPresetSettingChange: a
\* checkbox that is clicked, a text that is typed
EnvSettings(st) ==
    {<<"isEnvPresetEnabled", ~st.envConfig.isEnvPresetEnabled>>,
     <<"browsers", IF st.envConfig.browsers = "" THEN "ie 11" ELSE "">>}

Loaded ==
    \/ \E success \in BOOLEAN : BabelLoaded(success)
    \/ \E key \in PluginKeys, success \in BOOLEAN : PluginLoaded(key, success)
    \/ \E success \in BOOLEAN : PolyfillLoaded(success)
    \/ \E success \in BOOLEAN : EnvPresetLoaded(success)

Next ==
    \/ Loaded
    \/ \E code \in Codes : _updateCode(code)
    \/ \E name \in SettingNames : _onSettingChange(name, ~shownSetting(state, name))
    \/ \E s \in EnvSettings(state) : _onEnvPresetSettingChange(s[1], s[2])
    \/ _onIsSidebarExpandedChange(~state.isSidebarExpanded)
    \/ Tick
    \/ _compileToState

Spec == Init /\ [][Next]_vars

-----------------------------------------------------------------------------
(* The page opened on the preferences of an earlier visit *)

\* the labels of the presets of keys, in the order of presetPluginConfigs
labelsOf(keys) ==
    LET ks == filterSeq(presetKeys, keys) IN [i \in DOMAIN ks |-> <<presetLabel(ks[i])>>]

\* the snapshots an earlier visit can have left
PersistedStates ==
    {[defaultPersistedState EXCEPT
        !.babili = flags[1], !.prettier = flags[2], !.builtIns = flags[3],
        !.debug = flags[4], !.evaluate = flags[5], !.lineWrap = flags[6],
        !.showSidebar = flags[7], !.code = code,
        !.presets = join(labelsOf(keys)
                           \o (IF flags[1] THEN << <<"babili">> >> ELSE <<>>)
                           \o (IF env THEN << <<ENV>> >> ELSE <<>>))] :
        flags \in [1..7 -> BOOLEAN], code \in {"", "x"},
        keys \in SUBSET PresetKeys, env \in BOOLEAN}

PrefsInit == \E persistedState \in PersistedStates : InitFrom(persistedState)

\* Babel loads and the user switches presets and the sidebar
PrefsNext ==
    \/ \E success \in BOOLEAN : BabelLoaded(success)
    \/ \E name \in PresetKeys :
          /\ nEvents = 0
          /\ _onSettingChange(name, ~shownSetting(state, name))
    \/ nEvents = 0 /\ _onIsSidebarExpandedChange(~state.isSidebarExpanded)
    \/ Tick
    \/ _compileToState

PrefsSpec == PrefsInit /\ [][PrefsNext]_vars

-----------------------------------------------------------------------------
(* The options panel used on all its settings *)

\* the names of all the checkboxes of the options panel that call onSettingChange
PanelSettingNames ==
    {"babel-polyfill", "builtIns", "debugEnvPreset", "lineWrap"}
      \cup PluginKeys \cup PresetKeys

\* the modules load and the user clicks the checkboxes
SettingsNext ==
    \/ Loaded
    \/ \E name \in PanelSettingNames : _onSettingChange(name, ~shownSetting(state, name))
    \/ _onEnvPresetSettingChange("isEnvPresetEnabled", ~state.envConfig.isEnvPresetEnabled)
    \/ Tick
    \/ _compileToState

SettingsSpec == Init /\ [][SettingsNext]_vars

-----------------------------------------------------------------------------
(* C1: recompilation is debounced *)

\* the last step ran the function given to debounce
compiledByTimer == last.op = "_compileToState"

\* C1: every call of _updateCode(code) sets state.code to code at once and
\* (re)starts the timer; the debounced compile runs only when DEBOUNCE_DELAY ms
\* have passed since the last call, once for the calls since the compile
\* before it, and on the code of the last of them.
C1_Debounced ==
    /\ last.updatesCode =>
          /\ state.code = calls.arg.code
          /\ calls.since = 0
          /\ debounce.pending /\ debounce.left = DEBOUNCE_DELAY
    /\ compiledByTimer =>
          /\ last.burst.since >= DEBOUNCE_DELAY
          /\ last.burst.n >= 1
          /\ last.compile.code = last.burst.arg.code
          /\ ~debounce.pending
    /\ (last.compile # NULL /\ last.op # "BabelLoaded") => compiledByTimer

\* a burst of two calls or more, with different codes, was compiled once
C1_Witness ==
    /\ compiledByTimer
    /\ last.burst.n >= 2
    /\ last.burst.first # last.burst.arg
    /\ state.compiled # NULL /\ state.compiled.src = last.burst.arg.code

-----------------------------------------------------------------------------
(* C2: the output settles *)

\* no compile is pending and no load is outstanding
quiescent == ~debounce.pending /\ \A m \in Modules : loads[m] = 0

\* the output shown is the one of the current code under the current settings
outputCurrent == state.compiled = _compile(state.code, state).compiled

\* a step of the page itself: the timer or a load, not the user
SystemStep == Tick \/ _compileToState \/ Loaded

\* the number of Ticks before the timer fires
ticksLeft == (debounce.left + TickStep - 1) \div TickStep

\* the steps of the page itself that one load callback can cause: the Ticks
\* and the firing of the timer it restarts, and itself
stepsPerLoad == (DEBOUNCE_DELAY + TickStep - 1) \div TickStep + 3

\* a bound on the number of steps of the page itself before it is quiescent,
\* if the user does nothing more
stepsLeft ==
    (IF state.babel.isLoading THEN stepsPerLoad * (Cardinality(Modules) + 1) ELSE 0)
      + stepsPerLoad * (loads[POLYFILL] + loads[ENV] + loads["babili-standalone"]
                          + loads["prettier"])
      + (IF debounce.pending THEN 1 + ticksLeft ELSE 0)

\* C2: once Babel is loaded, after the user's events and the load completions,
\* if the timer fires and every load ends, the output settles: whenever no
\* compile is pending and no load is outstanding, state.compiled is the result
\* of compiling state.code under the current settings, and every step of the
\* page itself (a Tick, the timer firing, a load ending) brings that state
\* nearer, so that it is reached once the user's events have ended.
C2_Settles ==
    /\ [](state.babel.isLoaded /\ quiescent => outputCurrent)
    /\ [][SystemStep => stepsLeft' < stepsLeft]_vars

\* the output has settled on a compile that uses a plugin loaded on request
\* and a setting changed by the user
C2_Witness ==
    /\ state.babel.isLoaded /\ quiescent /\ outputCurrent
    /\ nEvents = MaxEvents
    /\ state.plugins["babili-standalone"].isLoaded
    /\ state.compiled # NULL
    /\ [name |-> "babili"] \in Range(state.compiled.presets)
    /\ state.runtimePolyfillState.isEnabled

-----------------------------------------------------------------------------
(* C3: the compiled code is run only while evaluation is on *)

\* the runtime polyfill is enabled and loaded
polyfillReady(st) == st.runtimePolyfillState.isEnabled /\ st.runtimePolyfillState.isLoaded

\* C3: whenever a step has run the compiled code (compile with evaluate = true,
\* or scopedEval in the callback of the polyfill load), the runtime polyfill is
\* enabled and loaded at that moment.
C3_EvaluationGated == last.evaluated => polyfillReady(state)

-----------------------------------------------------------------------------
(* C4: the persisted snapshot *)

\* C4: local storage and the URL query hold the same snapshot, and once the
\* user has acted and no compile is pending, that snapshot is the one of the
\* current state (code, builtIns, debug, evaluate, lineWrap, showSidebar,
\* babili, prettier, the env preset configuration).
C4_Persisted ==
    /\ storage.replState = urlQuery
    /\ last.persists => storage.replState = persistSnapshot(state)
    /\ (compiledByTimer \/ last.op = "_onIsSidebarExpandedChange") => last.persists
    /\ (nEvents > 0 /\ ~debounce.pending) => storage.replState = persistSnapshot(state)

\* a snapshot written by the debounced compile, after settings of three kinds changed
C4_Witness ==
    /\ compiledByTimer
    /\ nEvents = MaxEvents
    /\ urlQuery = persistSnapshot(state)
    /\ urlQuery.evaluate /\ urlQuery.code = "x" /\ ~urlQuery.showSidebar

-----------------------------------------------------------------------------
(* C5: optional modules are loaded lazily *)

\* module m is enabled
moduleEnabled(st, m) ==
    IF m = ENV THEN st.envConfig.isEnvPresetEnabled ELSE pluginStateOf(st, m).isEnabled

\* C5: every module that the last step called loadPlugin for is enabled and
\* not loaded (the flags are those of the request: the step changes no other).
C5_LazyLoads ==
    \A m \in last.requested :
        moduleEnabled(state, m) /\ ~pluginStateOf(state, m).isLoaded

\* a step requested the load of one module and not that of the others, which
\* are disabled or loaded
C5_Witness ==
    /\ last.requested = {"prettier"}
    /\ state.plugins["babili-standalone"].isLoaded
    /\ ~state.runtimePolyfillState.isEnabled
    /\ ~state.envConfig.isEnvPresetEnabled

-----------------------------------------------------------------------------
(* C6: the persisted preferences round-trip *)

\* the preferences of state st
preferences(st) ==
    [babili |-> st.plugins["babili-standalone"].isEnabled,
     prettier |-> st.plugins["prettier"].isEnabled,
     builtIns |-> st.builtIns,
     debug |-> st.debugEnvPreset,
     evaluate |-> st.runtimePolyfillState.isEnabled,
     lineWrap |-> st.lineWrap,
     showSidebar |-> st.isSidebarExpanded,
     code |-> st.code,
     presets |-> {k \in PresetKeys : st.presets[k].isEnabled}]

\* C6: the snapshot _persistState writes of a state, handed to the constructor
\* as the persisted state, gives a state with the same flags, the same code
\* and the same enabled presets.
C6_RoundTrip ==
    state.babel.isLoaded =>
        preferences(constructor(persistSnapshot(state))) = preferences(state)

-----------------------------------------------------------------------------
(* C7: the counter of the plugin loads *)

\* C7: _numLoadingPlugins is the number of plugin loads whose callback has not
\* run, it is never negative, and a plugin callback recompiles exactly when it
\* brings the counter to 0.
C7_Counter ==
    /\ _numLoadingPlugins = loads["babili-standalone"] + loads["prettier"]
    /\ _numLoadingPlugins >= 0
    /\ last.op = "PluginLoaded" => (last.updatesCode <=> _numLoadingPlugins = 0)

\* a plugin callback ran, and did not recompile, while the load of the other
\* plugin, requested by a later _checkForUnloadedPlugins, was outstanding
C7_Witness ==
    /\ last.op = "PluginLoaded"
    /\ ~last.updatesCode
    /\ _numLoadingPlugins = 1
    /\ nEvents >= 2

-----------------------------------------------------------------------------
(* C8: the env preset is registered before it is used *)

\* the last step ran the compiler with the env preset in the preset list
compiledWithEnv ==
    /\ last.compile # NULL
    /\ \E i \in DOMAIN last.compile.config.presets :
          last.compile.config.presets[i].name = ENV

\* the last step was the callback of an env preset load that failed
envLoadFailed == last.op = "EnvPresetLoaded" /\ ~state.envPresetState.isLoaded

\* a compile with the env preset follows registerPreset, which is given the
\* module of a load that succeeded; a failed load registers nothing
envRegisteredFirst ==
    /\ compiledWithEnv => registered # NULL
    /\ registered # NULL =>
          /\ state.envPresetState.isLoaded
          /\ registered = state.envPresetState.plugin.default
    /\ last.registers => state.envPresetState.isLoaded
    /\ envLoadFailed => (~last.registers /\ registered = NULL)

\* C8 as claimed: the env preset is registered before it is used, and once a
\* load of it has failed, no later compile uses it.
C8_EnvRegisteredFirst ==
    /\ envRegisteredFirst
    /\ state.envPresetState.didError => ~compiledWithEnv

\* C8 as amended: the env preset is registered before it is used, and after a
\* failed load no compile uses it until a later load of it has succeeded.
C8_EnvRegisteredBeforeUse ==
    /\ envRegisteredFirst
    /\ ~state.envPresetState.isLoaded => ~compiledWithEnv

\* a compile used the env preset, which a second load brought after the first failed
C8_Witness ==
    /\ compiledWithEnv
    /\ registered = moduleOf(ENV).default
    /\ state.envPresetState.didError

-----------------------------------------------------------------------------
(* C9: the callback of the runtime polyfill load *)

\* C9: the callback of the polyfill load compiles nothing; it runs
\* state.compiled with state.sourceMap (the map of that very code) and sets
\* evalError to what was thrown, or NULL; it leaves everything else as it was;
\* with no compiled code, or empty code, it runs nothing and changes nothing.
C9_PolyfillCallback ==
    [][last'.op = "PolyfillLoaded" =>
          /\ last'.compile = NULL /\ ~last'.updatesCode
          /\ debounce' = debounce
          /\ \A f \in DOMAIN state \ {"runtimePolyfillState", "evalError"} :
                state'[f] = state[f]
          /\ state'.runtimePolyfillState.isEnabled = state.runtimePolyfillState.isEnabled
          /\ IF state.compiled = NULL \/ IsEmpty(state.compiled)
             THEN ~last'.evaluated /\ state'.evalError = state.evalError
             ELSE /\ last'.evaluated
                  /\ state'.evalError = scopedEval(state.compiled, state.sourceMap)
                  /\ state.sourceMap # NULL => state.sourceMap.mapOf = state.compiled
    ]_vars

\* the callback ran code that threw, compiled while evaluation was on
C9_Witness ==
    /\ last.op = "PolyfillLoaded"
    /\ last.evaluated
    /\ state.evalError # NULL
    /\ state.sourceMap # NULL

-----------------------------------------------------------------------------
(* C10: the debug info of the env preset *)

\* C10: after a compile, envPresetDebugInfo is NULL unless the env preset was
\* enabled and loaded and debugEnvPreset was true, and is then the info of
\* this compile; the panel is given it only while debugEnvPreset is true.
C10_DebugInfo ==
    /\ last.compile # NULL =>
          /\ state.envPresetDebugInfo # NULL =>
                (envIncluded(state) /\ state.debugEnvPreset)
          /\ state.envPresetDebugInfo \in {NULL, [debugInfoFor |-> envEntry(state).targets]}
    /\ render(state).info # NULL => state.debugEnvPreset
    /\ render(state).info \in {NULL, state.envPresetDebugInfo}

\* a compile with the env preset, after debugEnvPreset was switched off, left no info
C10_Witness ==
    /\ compiledByTimer
    /\ envIncluded(state)
    /\ ~state.debugEnvPreset
    /\ state.envPresetDebugInfo = NULL
    /\ nEvents = MaxEvents

-----------------------------------------------------------------------------
(* C11: nothing is compiled before Babel is loaded *)

\* nothing has happened yet: no compile, no load, no user event, nothing stored
nothingDone ==
    /\ state.compiled = NULL /\ state.compileError = NULL /\ state.evalError = NULL
    /\ state.sourceMap = NULL /\ state.envPresetDebugInfo = NULL
    /\ last.op \in {"none", "BabelLoaded"}
    /\ last.compile = NULL /\ ~last.evaluated /\ last.requested = {}
    /\ \A m \in Modules : loads[m] = 0 /\ ~pluginStateOf(state, m).isLoading
    /\ _numLoadingPlugins = 0
    /\ debounce = idle /\ calls.n = 0
    /\ storage.replState = NULL /\ urlQuery = NULL
    /\ nEvents = 0

\* the last step was the state update that records Babel as loaded
babelJustLoaded == last.op = "BabelLoaded" /\ state.babel.isLoaded

\* C11: while state.babel.isLoaded is false nothing has been compiled, no
\* load of an optional module has been requested, state.compiled is NULL and
\* the panels are not rendered; Babel is loaded once (a loaded Babel is not
\* loading), and the update that records it as loaded compiles state.code and
\* is followed by the first _checkForUnloadedPlugins, which requests the load
\* of every module that is enabled.
C11_NoCompileBeforeBabel ==
    /\ state.babel.isLoaded => ~state.babel.isLoading
    /\ ~state.babel.isLoaded => (nothingDone /\ ~rendersPanels(state))
    /\ babelJustLoaded =>
          /\ last.compile # NULL
          /\ last.compile.code = state.code
          /\ (state.compiled = NULL) = (state.code \in BadCodes)
          /\ last.requested = {m \in Modules : moduleEnabled(state, m)}
          /\ \A m \in Modules : loads[m] = IF m \in last.requested THEN 1 ELSE 0
          /\ debounce = idle /\ nEvents = 0

\* Babel has just loaded: the code of the earlier visit is compiled and the
\* loads of the env preset and of the runtime polyfill, enabled on that visit,
\* are requested
C11_Witness ==
    /\ babelJustLoaded
    /\ state.compiled # NULL
    /\ loads[ENV] = 1 /\ loads[POLYFILL] = 1
    /\ last.requested = {ENV, POLYFILL}

-----------------------------------------------------------------------------
(* C12: a compile applies only what is enabled and loaded *)

\* module state ps is enabled and loaded
ready(ps) == ps.isEnabled /\ ps.isLoaded

\* every entry of the preset list of the last compile is a preset that is
\* enabled and loaded, babili with the babili plugin enabled and loaded, or the
\* env preset with isEnvPresetEnabled and envPresetState.isLoaded
presetListReady ==
    \A i \in DOMAIN last.compile.config.presets :
        LET name == last.compile.config.presets[i].name IN
        IF name = "babili" THEN ready(state.plugins["babili-standalone"])
        ELSE IF name = ENV
             THEN state.envConfig.isEnvPresetEnabled /\ state.envPresetState.isLoaded
        ELSE \E key \in PresetKeys : presetLabel(key) = name /\ ready(state.presets[key])

\* C12: in every compile the preset list holds only presets, babili and the
\* env preset that are enabled and loaded, and prettify is requested only if
\* the prettier plugin is enabled and loaded.
C12_EnabledAndLoaded ==
    last.compile # NULL =>
        /\ presetListReady
        /\ last.compile.config.prettify => ready(state.plugins["prettier"])

-----------------------------------------------------------------------------
(* C13: at most one load of a module is in flight *)

\* the plugins whose load is in flight
loadingPlugins == {k \in PluginKeys : state.plugins[k].isLoading}

-----------------------------------------------------------------------------
(* C14: the option useBuiltIns of the env preset *)

\* evaluation is on: the setting "evaluate" of the options panel, which is
\* the isEnabled of the runtime polyfill
evaluationEnabled(st) == st.runtimePolyfillState.isEnabled

\* C14: in every compile that includes the env preset, useBuiltIns is true
\* exactly when builtIns is enabled and evaluation is not; with evaluation on
\* it is false.
C14_UseBuiltIns ==
    compiledWithEnv =>
        \A i \in DOMAIN last.compile.config.presets :
            last.compile.config.presets[i].name = ENV =>
                last.compile.config.presets[i].useBuiltIns
                    = (state.builtIns /\ ~evaluationEnabled(state))

-----------------------------------------------------------------------------
(* C15: what a setting change changes *)

\* the fields of a module state that a setting change leaves alone
loadStatus(ps) ==
    [isLoaded |-> ps.isLoaded, didError |-> ps.didError, plugin |-> ps.plugin]

\* the fields of the state that hold no setting of the options panel and no
\* module state
otherFields(st) ==
    DOMAIN st \ {"runtimePolyfillState", "envPresetState", "plugins", "presets",
                 "builtIns", "debugEnvPreset", "lineWrap"}

====
